---- MODULE Spec2Model ----
(***************************************************************************)
(* Command dispatch and capture serialization of telegram-rpi-camera-bot:  *)
(* the session pool and its mutex, the buffered capture channel, the       *)
(* consumer goroutine with the camera lock, the capture process run under  *)
(* a timeout, and the photo database behind its RW lock.                   *)
(***************************************************************************)
EXTENDS Integers, Sequences, FiniteSets, TLC

\* ------------------------------------------------------------------ bounds
\* number of updates the transport delivers in one run
MaxUpdates == 2
\* number of updates delivered in a run that fills the capture channel
MaxQueueUpdates == 5
\* update ids are drawn from 1..MaxUpdateId
MaxUpdateId == 2
\* number of update-handler goroutines that can be in flight at once
NumHandlers == 2
\* number of rows of the photos table when GetPhotos is called on its own
MaxRows == 4
\* GetPhotos is called with latestN in 0..MaxLimit
MaxLimit == 2
\* CaptureStillImage is called with at most MaxParams camera parameters
MaxParams == 3
\* number of updates delivered in a run that blocks a producer behind a busy consumer
MaxDrainUpdates == 6

\* ------------------------------------------------------------ constants
numQueue == 4
numLatestPhotos == 20
MinImageWidth == 400
MinImageHeight == 300

commandStart == <<"/", "s", "t", "a", "r", "t">>
commandCapture == <<"/", "c", "a", "p", "t", "u", "r", "e">>
commandStatus == <<"/", "s", "t", "a", "t", "u", "s">>
commandHelp == <<"/", "h", "e", "l", "p">>
commandCancel == <<"/", "c", "a", "n", "c", "e", "l">>

statusWaiting == "Waiting"

\* ------------------------------------------------------------ inputs
\* config.AvailableIds
availableIds == {"alice", "bob"}
\* update.Message.From.Username; NoUsername is the nil pointer
NoUsername == "<nil>"
Usernames == availableIds \cup {"mallory", NoUsername}
UpdateIDs == 1..MaxUpdateId
\* update.Message.Text; the empty tuple also stands for a message without text
Texts == {commandStart, commandCapture, commandStatus, commandHelp,
          commandCancel, <<>>, <<"h", "i">>}
\* the texts of the concurrent runs: a capture, a command answered at once, no text
MainTexts == {commandCapture, commandStatus, <<>>}
\* config.ImageWidth, config.ImageHeight, config.IsInMaintenance
Configs == {[ImageWidth |-> 1600, ImageHeight |-> 240, IsInMaintenance |-> FALSE],
            [ImageWidth |-> 320, ImageHeight |-> 1200, IsInMaintenance |-> TRUE]}

Handlers == 1..NumHandlers
\* Inline: the update carries an inline query and no message
NoUpdate == [From |-> NoUsername, UpdateID |-> 0, Text |-> <<>>, Inline |-> FALSE]
NoRequest == [UserName |-> NoUsername, ImageWidth |-> 0, ImageHeight |-> 0]
\* GetPhotos has not been called
NoCall == [UserName |-> NoUsername, latestN |-> 0, photos |-> <<>>]
\* holder of a free mutex
Free == 0
\* the consumer goroutine started in main
Consumer == NumHandlers + 1

VARIABLES
    imageWidth,      \* var imageWidth
    imageHeight,     \* var imageHeight
    isInMaintenance, \* var isInMaintenance
    pool,            \* pool.Sessions: user id -> _session
    poolLock,        \* pool.Mutex: Free or the handler that holds it
    captureChannel,  \* buffered channel of _captureRequest
    cameraLock,      \* cameraLock: Free or Consumer
    dbWriter,        \* Database.RWMutex: TRUE while write-locked
    dbReaders,       \* Database.RWMutex: handlers holding a read lock
    photos,          \* rows of the photos table, in insertion order
    saveErr,         \* the failure the last SavePhoto logged, "nil" when it logged none
    hpc,             \* position of each update handler
    upd,             \* the update each handler is processing
    cpc,             \* position of the consumer goroutine
    request,         \* the request the consumer is processing
    capErr,          \* err of the running CaptureStillImage call
    proc,            \* the capture process of the running call and its waiter goroutine
    orphans,         \* capture processes still executing after their call returned
    waiters,         \* waiter goroutines still alive after their call returned
    timerFired,      \* the time.After channel of the running capture holds a value
    sent,            \* sent.Ok of b.SendPhoto in the running processCaptureRequest
    bytes,           \* what CaptureStillImage returned beside err: "stdout" or "nil"
    got,             \* the arguments and the result of a function called on its own
    budget,          \* number of updates the transport has yet to deliver
    seen             \* history: the update ids that have mutated each session

vars == <<imageWidth, imageHeight, isInMaintenance, pool, poolLock, captureChannel,
          cameraLock, dbWriter, dbReaders, photos, saveErr, hpc, upd, cpc, request, capErr,
          proc, orphans, waiters, timerFired, sent, bytes, got, budget, seen>>

cfgVars == <<imageWidth, imageHeight, isInMaintenance>>
handlerVars == <<pool, poolLock, hpc, upd, budget, seen>>
consumerVars == <<cameraLock, cpc, request, capErr, proc, orphans, waiters, timerFired, sent,
                  bytes>>
dbVars == <<dbWriter, dbReaders, photos, saveErr>>

\* ------------------------------------------------------------ helpers
\* a test for the whole text being the command
HasPrefixExact(s, prefix) == s = prefix

\* strings.HasPrefix
HasPrefix(s, prefix) ==
    /\ Len(s) >= Len(prefix)
    /\ SubSeq(s, 1, Len(prefix)) = prefix

\* a check that lets every id in
isAvailableIDAny(id) == TRUE

\* isAvailableID: id is one of availableIds
isAvailableID(id) == id \in availableIds

\* a configuration value taken as it is
MaxFirst(a, b) == a

\* the larger of the configured value and its minimum
Max(a, b) == IF a < b THEN b ELSE a

\* the switch on the message text in processUpdate: the cmd it selects
Classify(status, txt) ==
    IF status # statusWaiting THEN ""
    ELSE IF HasPrefix(txt, commandStart) THEN "start"
    ELSE IF HasPrefix(txt, commandCapture) THEN "capture"
    ELSE IF HasPrefix(txt, commandStatus) THEN "status"
    ELSE IF HasPrefix(txt, commandHelp) THEN "help"
    ELSE "unknown"

\* conf.MessageUnknownCommand
MessageUnknownCommand == <<"U", "n", "k", "n", "o", "w", "n", " ", "c", "o", "m", "m", "a", "n", "d", ".">>

\* a fallback that never echoes the text
UnknownMessageNoEcho(txt) == MessageUnknownCommand

\* the default case of the switch: fmt.Sprintf("*%s*: %s", txt,
\* conf.MessageUnknownCommand) for a text that is not empty, else the message alone
UnknownMessage(txt) ==
    IF Len(txt) > 0 THEN <<"*">> \o txt \o <<"*", ":", " ">> \o MessageUnknownCommand
    ELSE MessageUnknownCommand

\* a switch whose fallback selects no message
MessageUnknownEmpty(status, txt) ==
    LET cmd == Classify(status, txt) IN
    IF cmd = "start" THEN <<"MessageDefault">>
    ELSE IF cmd = "status" THEN <<"getStatus">>
    ELSE IF cmd = "help" THEN <<"getHelp">>
    ELSE <<>>

\* the message the switch selects; empty for a capture
Message(status, txt) ==
    LET cmd == Classify(status, txt) IN
    IF cmd = "start" THEN <<"MessageDefault">>
    ELSE IF cmd = "capture" THEN <<>>
    ELSE IF cmd = "status" THEN <<"getStatus">>
    ELSE IF cmd = "help" THEN <<"getHelp">>
    ELSE IF cmd = "unknown" THEN UnknownMessage(txt)
    ELSE <<>>

\* a duplicate test that never recognises a repeated id
IsDuplicateNever(session, updateID) == FALSE

\* the duplicate test of processUpdate
IsDuplicate(session, updateID) == session.LastUpdateID = updateID

\* ------------------------------------------------------------ initial state
InitState(updates, rows) ==
    /\ budget = updates
    /\ seen = [v \in availableIds |-> {}]
    /\ \E c \in Configs :
        /\ imageWidth = Max(c.ImageWidth, MinImageWidth)
        /\ imageHeight = Max(c.ImageHeight, MinImageHeight)
        /\ isInMaintenance = c.IsInMaintenance
    /\ pool = [v \in availableIds |->
                 [UserID |-> v, CurrentStatus |-> statusWaiting, LastUpdateID |-> -1]]
    /\ poolLock = Free
    /\ captureChannel = <<>>
    /\ cameraLock = Free
    /\ dbWriter = FALSE
    /\ dbReaders = {}
    /\ photos = rows
    /\ saveErr = "nil"
    /\ hpc = [h \in Handlers |-> "idle"]
    /\ upd = [h \in Handlers |-> NoUpdate]
    /\ cpc = "recv"
    /\ request = NoRequest
    /\ capErr = "nil"
    /\ proc = "none"
    /\ orphans = 0
    /\ waiters = 0
    /\ timerFired = FALSE
    /\ sent = FALSE
    /\ bytes = "nil"
    /\ got = NoCall

\* the bot starts on an empty photos table
InitWith(updates) == InitState(updates, <<>>)

Init == InitWith(MaxUpdates)

\* a run long enough to fill the capture channel
InitQueue == InitWith(MaxQueueUpdates)

\* ------------------------------------------------------------ the process
\* no goroutine has panicked: a panic that is not recovered ends the process,
\* and none of its goroutines takes another step
Alive == \A h \in Handlers : hpc[h] # "panic"

\* ------------------------------------------------------------ processUpdate
\* the callback receives a message update: the username checks before the lock
ReceiveMessage(h, from, id, txt) ==
    /\ Alive
    /\ hpc[h] = "idle"
    /\ budget > 0
    /\ budget' = budget - 1
    /\ IF from = NoUsername \/ ~isAvailableID(from)
       THEN \* only the username of a rejected update is read
            /\ hpc' = [hpc EXCEPT ![h] = "rejected"]
            /\ upd' = [upd EXCEPT ![h] = [From |-> from, UpdateID |-> 0, Text |-> <<>>,
                                          Inline |-> FALSE]]
       ELSE /\ hpc' = [hpc EXCEPT ![h] = "lock"]
            /\ upd' = [upd EXCEPT ![h] = [From |-> from, UpdateID |-> id, Text |-> txt,
                                          Inline |-> FALSE]]
    /\ UNCHANGED <<cfgVars, got, pool, poolLock, captureChannel, consumerVars, dbVars, seen>>

\* the update of a user without a username or not allowed: logError, return false
Reject(h) ==
    /\ Alive
    /\ hpc[h] = "rejected"
    /\ hpc' = [hpc EXCEPT ![h] = "idle"]
    /\ upd' = [upd EXCEPT ![h] = NoUpdate]
    /\ UNCHANGED <<cfgVars, got, pool, poolLock, captureChannel, consumerVars, dbVars,
                   budget, seen>>

\* a dispatch that does not look at the maintenance flag
DispatchNoMaintenance(message, maintenance) ==
    IF Len(message) > 0 THEN "reply" ELSE "enqueue"

\* what processUpdate does with the message the switch selected: send it, or for
\* the empty message of a capture send the maintenance message or enqueue
Dispatch(message, maintenance) ==
    IF Len(message) > 0 THEN "reply"
    ELSE IF maintenance THEN "maintenance"
    ELSE "enqueue"

\* a session write that does not carry the status over
SaveLastUpdateIDOnly(session, updateID) ==
    [UserID |-> session.UserID, CurrentStatus |-> "", LastUpdateID |-> updateID]

\* save last update id: the _session stored back under the same user id
SaveLastUpdateID(session, updateID) ==
    [UserID |-> session.UserID, CurrentStatus |-> session.CurrentStatus,
     LastUpdateID |-> updateID]

\* a write that records the update id in every session
StoreSessionAll(sessions, userID, session) ==
    [u \in DOMAIN sessions |->
        [sessions[u] EXCEPT !.LastUpdateID = session.LastUpdateID]]

\* pool.Sessions[userID] = _session{...}: the entry of userID is replaced
StoreSession(sessions, userID, session) == [sessions EXCEPT ![userID] = session]

\* pool.Lock(), the duplicate test, the session write and the classification
PoolLock(h) ==
    /\ Alive
    /\ hpc[h] = "lock"
    /\ poolLock = Free
    /\ LET userID == upd[h].From
           session == pool[userID]
       IN  IF userID \in DOMAIN pool /\ ~IsDuplicate(session, upd[h].UpdateID)
           THEN /\ pool' = StoreSession(pool, userID,
                                        SaveLastUpdateID(session, upd[h].UpdateID))
                /\ seen' = [seen EXCEPT ![userID] = @ \cup {upd[h].UpdateID}]
                /\ poolLock' = h
                /\ hpc' = [hpc EXCEPT ![h] =
                              Dispatch(Message(session.CurrentStatus, upd[h].Text),
                                       isInMaintenance)]
                /\ UNCHANGED upd
           ELSE \* duplicated update id (or no session): logged, pool.Unlock()
                /\ hpc' = [hpc EXCEPT ![h] = "idle"]
                /\ upd' = [upd EXCEPT ![h] = NoUpdate]
                /\ UNCHANGED <<pool, poolLock, seen>>
    /\ UNCHANGED <<cfgVars, got, captureChannel, consumerVars, dbVars, budget>>

\* processUpdate returning without pool.Unlock()
PoolUnlockMissing(holder) == holder

\* pool.Unlock() at the end of processUpdate
PoolUnlock(holder) == Free

\* a send that never waits for room
CanSendAlways == TRUE

\* a send on the buffered captureChannel proceeds only while the buffer has room
CanSend == Len(captureChannel) < numQueue

\* the _captureRequest that processUpdate builds for the update of handler h
RequestOf(h) ==
    [UserName |-> upd[h].From, ImageWidth |-> imageWidth, ImageHeight |-> imageHeight]

\* b.SendMessage of the reply or of the maintenance message, then pool.Unlock()
Reply(h) ==
    /\ Alive
    /\ hpc[h] \in {"reply", "maintenance"}
    /\ poolLock' = PoolUnlock(poolLock)
    /\ hpc' = [hpc EXCEPT ![h] = "idle"]
    /\ upd' = [upd EXCEPT ![h] = NoUpdate]
    /\ UNCHANGED <<cfgVars, got, pool, captureChannel, consumerVars, dbVars, budget, seen>>

\* b.SendMessage of the reply or of the maintenance message returns !sent.Ok
SendFailed(h) ==
    /\ Alive
    /\ hpc[h] \in {"reply", "maintenance"}
    /\ hpc' = [hpc EXCEPT ![h] = "failed"]
    /\ UNCHANGED <<cfgVars, got, pool, poolLock, upd, captureChannel, consumerVars, dbVars,
                   budget, seen>>

\* a failed send that takes the update id out of the session again
RollbackLastUpdateID(sessions, userID) == [sessions EXCEPT ![userID].LastUpdateID = -1]

\* the else branch of sent.Ok only logs: the sessions stay as they were written
KeepLastUpdateID(sessions, userID) == sessions

\* logError("failed to send ..."), pool.Unlock(), return false
LogSendError(h) ==
    /\ Alive
    /\ hpc[h] = "failed"
    /\ pool' = KeepLastUpdateID(pool, upd[h].From)
    /\ poolLock' = PoolUnlock(poolLock)
    /\ hpc' = [hpc EXCEPT ![h] = "idle"]
    /\ upd' = [upd EXCEPT ![h] = NoUpdate]
    /\ UNCHANGED <<cfgVars, got, captureChannel, consumerVars, dbVars, budget, seen>>

\* captureChannel <- _captureRequest{...}, then pool.Unlock()
Enqueue(h) ==
    /\ Alive
    /\ hpc[h] = "enqueue"
    /\ CanSend
    /\ captureChannel' = Append(captureChannel, RequestOf(h))
    /\ poolLock' = PoolUnlock(poolLock)
    /\ hpc' = [hpc EXCEPT ![h] = "idle"]
    /\ upd' = [upd EXCEPT ![h] = NoUpdate]
    /\ UNCHANGED <<cfgVars, got, pool, consumerVars, dbVars, budget, seen>>

\* ------------------------------------------------------------ photo database
\* select ... where user_name = ? order by id desc limit ?
\* (in SQLite a negative limit puts no upper bound on the number of rows)
RECURSIVE SelectDesc(_, _, _)
SelectDesc(rows, userName, limit) ==
    IF rows = <<>> \/ limit = 0 THEN <<>>
    ELSE LET last == rows[Len(rows)]
             rest == SubSeq(rows, 1, Len(rows) - 1)
         IN  IF last.UserName = userName
             THEN <<last>> \o SelectDesc(rest, userName, limit - 1)
             ELSE SelectDesc(rest, userName, limit)

\* a query without its limit
GetPhotosUnlimited(userName, latestN) == SelectDesc(photos, userName, -1)

\* Database.GetPhotos: the rows the query returns, in the order it returns them
GetPhotos(userName, latestN) == SelectDesc(photos, userName, latestN)

\* the photos tables GetPhotos is called on: the file db.sqlite outlives the
\* process, so a table holds the rows of earlier runs, with ids 1, 2, ...
Stores ==
    UNION {{[i \in 1..n |-> [UserName |-> f[i], FileId |-> i]] : f \in [1..n -> availableIds]}
              : n \in 0..MaxRows}
\* the userName and latestN arguments
LookupUsers == availableIds \cup {"mallory"}
Limits == 0..MaxLimit

InitPhotos == \E rows \in Stores : InitState(0, rows)

\* a call of db.GetPhotos(userName, latestN): d.RLock(), the query, d.RUnlock()
CallGetPhotos(userName, latestN) ==
    /\ ~dbWriter
    /\ got' = [UserName |-> userName, latestN |-> latestN,
               photos |-> GetPhotos(userName, latestN)]
    /\ UNCHANGED <<cfgVars, handlerVars, captureChannel, consumerVars, dbVars>>

NextPhotos == \E userName \in LookupUsers, latestN \in Limits : CallGetPhotos(userName, latestN)

SpecPhotos == InitPhotos /\ [][NextPhotos]_vars

\* a read lock that is granted at once
CanRLockAlways == TRUE

\* sync.RWMutex: RLock waits while a writer holds the lock or is waiting for it
CanRLock == ~dbWriter /\ cpc # "save"
\* sync.RWMutex: Lock waits for the writer and for every reader to leave
CanLock == ~dbWriter /\ dbReaders = {}

\* ------------------------------------------------------------ processInlineQuery
\* an inline query handed to the steps of processUpdate
InlineQueryNextLock == "lock"

\* processInlineQuery of an allowed user goes on to db.GetPhotos
InlineQueryNext == "rlock"

\* the callback receives an inline query from a user with a username: the
\* username checks
ReceiveInlineQuery(h, from) ==
    /\ Alive
    /\ hpc[h] = "idle"
    /\ budget > 0
    /\ from # NoUsername
    /\ budget' = budget - 1
    /\ IF ~isAvailableID(from)
       THEN UNCHANGED <<hpc, upd>>
       ELSE /\ hpc' = [hpc EXCEPT ![h] = InlineQueryNext]
            /\ upd' = [upd EXCEPT ![h] = [From |-> from, UpdateID |-> 0, Text |-> <<>>,
                                          Inline |-> TRUE]]
    /\ UNCHANGED <<cfgVars, got, pool, poolLock, captureChannel, consumerVars, dbVars, seen>>

\* the callback receives an inline query from a user without a username:
\* update.Message is nil in an update that carries an inline query, and the
\* argument of logError reads update.Message.From.FirstName; the nil pointer
\* dereference panics in the goroutine of the handler
InlineQueryNoUsername(h) ==
    /\ Alive
    /\ hpc[h] = "idle"
    /\ budget > 0
    /\ budget' = budget - 1
    /\ hpc' = [hpc EXCEPT ![h] = "panic"]
    /\ upd' = [upd EXCEPT ![h] = [From |-> NoUsername, UpdateID |-> 0, Text |-> <<>>,
                                  Inline |-> TRUE]]
    /\ UNCHANGED <<cfgVars, got, pool, poolLock, captureChannel, consumerVars, dbVars, seen>>

\* db.GetPhotos: d.RLock()
GetPhotosRLock(h) ==
    /\ Alive
    /\ hpc[h] = "rlock"
    /\ CanRLock
    /\ dbReaders' = dbReaders \cup {h}
    /\ hpc' = [hpc EXCEPT ![h] = "reading"]
    /\ UNCHANGED <<cfgVars, got, pool, poolLock, upd, budget, seen, captureChannel, consumerVars,
                   dbWriter, photos, saveErr>>

\* db.GetPhotos: the query and d.RUnlock(); then the inline query is answered
GetPhotosRUnlock(h) ==
    /\ Alive
    /\ hpc[h] = "reading"
    /\ dbReaders' = dbReaders \ {h}
    /\ hpc' = [hpc EXCEPT ![h] = "idle"]
    /\ upd' = [upd EXCEPT ![h] = NoUpdate]
    /\ UNCHANGED <<cfgVars, got, pool, poolLock, budget, seen, captureChannel, consumerVars,
                   dbWriter, photos, saveErr>>

\* ------------------------------------------------------------ consumer goroutine
\* a receive that takes the request that entered the channel last
ChanRecvLast(ch) == ch[Len(ch)]

\* <-captureChannel: the value received is the one that has waited longest
ChanRecv(ch) == Head(ch)

\* a receive that leaves the request in the channel
ChanRestKeep(ch) == ch

\* <-captureChannel: the value received is removed from the channel
ChanRest(ch) == Tail(ch)

\* a consumer that leaves its loop after the first request
LoopNextStop == "stopped"

\* for { processCaptureRequest(client, <-captureChannel) }: back to the receive
LoopNext == "recv"

\* a consumer that never takes a request
CanRecvNever == FALSE

\* a receive on captureChannel proceeds only when the buffer holds a value
CanRecv == captureChannel # <<>>

\* <-captureChannel in the loop of main
Dequeue ==
    /\ Alive
    /\ cpc = "recv"
    /\ CanRecv
    /\ request' = ChanRecv(captureChannel)
    /\ captureChannel' = ChanRest(captureChannel)
    /\ cpc' = "camlock"
    /\ UNCHANGED <<cfgVars, got, handlerVars, dbVars, cameraLock, capErr, proc, orphans, waiters,
                   timerFired, sent, bytes>>

\* processCaptureRequest: cameraLock.Lock()
CameraLock ==
    /\ Alive
    /\ cpc = "camlock"
    /\ cameraLock = Free
    /\ cameraLock' = Consumer
    /\ cpc' = "start"
    /\ UNCHANGED <<cfgVars, got, handlerVars, dbVars, captureChannel, request, capErr, proc,
                   orphans, waiters, timerFired, sent, bytes>>

\* processCaptureRequest returning with the camera lock still held
DeferredUnlockMissing(holder) == holder

\* the deferred cameraLock.Unlock() that runs when processCaptureRequest returns
DeferredUnlock(holder) == Free

\* a processCaptureRequest that goes on to send the photo whatever err is
AfterCaptureIgnoreErr(err) == "sendphoto"

\* processCaptureRequest: the branch taken on the err of CaptureStillImage
AfterCapture(err) == IF err = "nil" THEN "sendphoto" ELSE "senderr"

\* a CaptureStillImage that returns the buffer whatever err is
BytesOfAlways(err) == "stdout"

\* the first value CaptureStillImage returns: buffer.Bytes() with a nil err, nil
\* with any other
BytesOf(err) == IF err = "nil" THEN "stdout" ELSE "nil"

\* CaptureStillImage: cmd.Start(); on success the waiter goroutine and the timer
CmdStart ==
    /\ Alive
    /\ cpc = "start"
    /\ \/ /\ proc' = "running"
          /\ cpc' = "select"
          /\ capErr' = "nil"
          /\ UNCHANGED bytes
       \/ /\ capErr' = "start"
          /\ cpc' = AfterCapture(capErr')
          /\ bytes' = BytesOf(capErr')
          /\ UNCHANGED proc
    /\ UNCHANGED <<cfgVars, got, handlerVars, dbVars, captureChannel, cameraLock, request,
                   orphans, waiters, timerFired, sent>>

\* the capture process of the running call exits by itself
ProcExit ==
    /\ proc = "running"
    /\ proc' = "zombie"
    /\ UNCHANGED <<cfgVars, got, handlerVars, dbVars, captureChannel, cameraLock, cpc, request,
                   capErr, orphans, waiters, timerFired, sent, bytes>>

\* the waiter goroutine: cmd.Wait() returns, the goroutine blocks on done <-
WaiterReap ==
    /\ Alive
    /\ proc = "zombie"
    /\ proc' = "sending"
    /\ UNCHANGED <<cfgVars, got, handlerVars, dbVars, captureChannel, cameraLock, cpc, request,
                   capErr, orphans, waiters, timerFired, sent, bytes>>

\* a process that outlived its call exits (from the kill signal, or by itself)
OrphanExit ==
    /\ orphans > 0
    /\ orphans' = orphans - 1
    /\ UNCHANGED waiters
    /\ UNCHANGED <<cfgVars, got, handlerVars, dbVars, captureChannel, cameraLock, cpc, request,
                   capErr, proc, timerFired, sent, bytes>>

\* the timer of time.After expires
TimerFire ==
    /\ Alive
    /\ cpc = "select"
    /\ ~timerFired
    /\ timerFired' = TRUE
    /\ UNCHANGED <<cfgVars, got, handlerVars, dbVars, captureChannel, cameraLock, cpc, request,
                   capErr, proc, orphans, waiters, sent, bytes>>

\* select: case err = <-done, with the exit status cmd.Wait() returned
SelectDone ==
    /\ Alive
    /\ cpc = "select"
    /\ proc = "sending"
    /\ proc' = "none"
    /\ capErr' \in {"nil", "run"}
    /\ cpc' = AfterCapture(capErr')
    /\ bytes' = BytesOf(capErr')
    /\ timerFired' = FALSE
    /\ UNCHANGED <<cfgVars, got, handlerVars, dbVars, captureChannel, cameraLock, request,
                   orphans, waiters, sent>>

\* a capture that is run without a timeout
TimeoutNever == FALSE

\* the channel of time.After is ready to be received from
TimeoutReady == timerFired

\* select: case <-timeout
SelectTimeout ==
    /\ Alive
    /\ cpc = "select"
    /\ TimeoutReady
    /\ cpc' = "kill"
    /\ timerFired' = FALSE
    /\ UNCHANGED <<cfgVars, got, handlerVars, dbVars, captureChannel, cameraLock, request,
                   capErr, proc, orphans, waiters, sent, bytes>>

\* the result of cmd.Process.Kill() on a process in state p: the possible pairs of
\* (error returned, the process is still executing when Kill returns)
KillOutcomes(p) ==
    IF p = "running"
        \* the signal is sent (Kill does not wait for the exit), or the call fails
        THEN {[err |-> "timeout", alive |-> TRUE], [err |-> "killfail", alive |-> TRUE]}
    ELSE IF p = "zombie"
        \* exited but not yet waited for: the signal is accepted
        THEN {[err |-> "timeout", alive |-> FALSE]}
    \* Wait has returned: os: process already finished
    ELSE {[err |-> "killfail", alive |-> FALSE]}

\* a waiter goroutine that ends when its call returns
WaitersAfterTimeoutNone(n) == n

\* the timeout case returns without receiving from done: the waiter goroutine of
\* the call stays, in cmd.Wait() or blocked on done <-, which has no receiver
WaitersAfterTimeout(n) == n + 1

\* cmd.Process.Kill() and the error made of its result; CaptureStillImage returns
Kill ==
    /\ Alive
    /\ cpc = "kill"
    /\ \E o \in KillOutcomes(proc) :
          /\ capErr' = o.err
          /\ orphans' = IF o.alive THEN orphans + 1 ELSE orphans
    /\ waiters' = WaitersAfterTimeout(waiters)
    /\ proc' = "none"
    /\ cpc' = AfterCapture(capErr')
    /\ bytes' = BytesOf(capErr')
    /\ UNCHANGED <<cfgVars, got, handlerVars, dbVars, captureChannel, cameraLock, request,
                   timerFired, sent>>

\* a processCaptureRequest that calls CaptureStillImage again after an error
AfterErrorRetry == "start"

\* processCaptureRequest after the message of the else branch: return result
AfterError == LoopNext

\* capture failed: b.SendMessage of "image capture failed: <err>", return
SendError ==
    /\ Alive
    /\ cpc = "senderr"
    /\ cameraLock' = DeferredUnlock(cameraLock)
    /\ cpc' = AfterError
    /\ request' = NoRequest
    /\ capErr' = "nil"
    /\ bytes' = "nil"
    /\ UNCHANGED <<cfgVars, got, handlerVars, dbVars, captureChannel, proc, orphans, waiters,
                   timerFired, sent>>

\* b.SendPhoto: delivered, or not delivered and the failure message sent, return
SendPhoto ==
    /\ Alive
    /\ cpc = "sendphoto"
    /\ \/ /\ sent' = TRUE
          /\ cpc' = "save"
          /\ UNCHANGED <<cameraLock, request, bytes>>
       \/ /\ sent' = FALSE
          /\ cameraLock' = DeferredUnlock(cameraLock)
          /\ cpc' = LoopNext
          /\ request' = NoRequest
          /\ bytes' = "nil"
    /\ UNCHANGED <<cfgVars, got, handlerVars, dbVars, captureChannel, capErr, proc, orphans, waiters,
                   timerFired>>

\* db.SavePhoto: d.Lock()
SavePhotoLock ==
    /\ Alive
    /\ cpc = "save"
    /\ CanLock
    /\ dbWriter' = TRUE
    /\ saveErr' = "nil"
    /\ cpc' = "saving"
    /\ UNCHANGED <<cfgVars, got, handlerVars, captureChannel, cameraLock, request, capErr,
                   proc, orphans, waiters, timerFired, sent, bytes,
                   dbReaders, photos>>

\* SavePhoto returning with the write lock still held
SavePhotoUnlockMissing == TRUE

\* db.SavePhoto: d.Unlock()
SavePhotoUnlock == FALSE

\* an insert that overwrites the table
InsertReplace(rows, userName) == <<[UserName |-> userName, FileId |-> Len(rows) + 1]>>

\* insert into photos(user_name, file_id, caption) values(?, ?, ?): the new row
\* gets the next id; FileId stands for the id and for the file it names
Insert(rows, userName) == Append(rows, [UserName |-> userName, FileId |-> Len(rows) + 1])

\* the outcomes of the insert: done, or d.db.Prepare failed, or stmt.Exec failed
InsertErrors == {"nil", "prepare", "exec"}

\* a SavePhoto that stores the row whatever the insert reported
StoredAnyway(rows, userName, err) == Insert(rows, userName)

\* the table after SavePhoto: with the new row, or as it was when the insert failed
Stored(rows, userName, err) == IF err = "nil" THEN Insert(rows, userName) ELSE rows

\* the result of processCaptureRequest: true when the photo was captured and sent
Result(err, sentOk) == err = "nil" /\ sentOk

\* db.SavePhoto: the insert (a failure is logged), d.Unlock(); then result = true
\* and processCaptureRequest returns
SavePhotoExec ==
    /\ Alive
    /\ cpc = "saving"
    /\ saveErr' \in InsertErrors
    /\ photos' = Stored(photos, request.UserName, saveErr')
    /\ dbWriter' = SavePhotoUnlock
    /\ cameraLock' = DeferredUnlock(cameraLock)
    /\ cpc' = LoopNext
    /\ request' = NoRequest
    /\ sent' = FALSE
    /\ bytes' = "nil"
    /\ UNCHANGED <<cfgVars, got, handlerVars, captureChannel, capErr, proc, orphans, waiters,
                   timerFired, dbReaders>>

\* ------------------------------------------------------------ specification
\* the steps of the handlers once an update is received
HandlerStep ==
    \/ \E h \in Handlers : PoolLock(h)
    \/ \E h \in Handlers : Reply(h)
    \/ \E h \in Handlers : Enqueue(h)
    \/ \E h \in Handlers : GetPhotosRLock(h)
    \/ \E h \in Handlers : GetPhotosRUnlock(h)

\* the steps of the consumer goroutine, of the capture process and of its timer
ConsumerStep ==
    \/ Dequeue
    \/ CameraLock
    \/ CmdStart
    \/ ProcExit
    \/ WaiterReap
    \/ OrphanExit
    \/ TimerFire
    \/ SelectDone
    \/ SelectTimeout
    \/ Kill
    \/ SendError
    \/ SendPhoto
    \/ SavePhotoLock
    \/ SavePhotoExec

\* the steps of a run in which no handler panics
NextRun ==
    \/ \E h \in Handlers, from \in Usernames, id \in UpdateIDs, txt \in MainTexts :
           ReceiveMessage(h, from, id, txt)
    \/ \E h \in Handlers : Reject(h)
    \/ \E h \in Handlers : SendFailed(h)
    \/ \E h \in Handlers : LogSendError(h)
    \/ \E h \in Handlers, from \in Usernames : ReceiveInlineQuery(h, from)
    \/ HandlerStep
    \/ ConsumerStep

Next ==
    \/ NextRun
    \/ \E h \in Handlers : InlineQueryNoUsername(h)

Spec == Init /\ [][Next]_vars

\* the same steps, with the updates of whitelisted users that matter to the channel
QueueTexts == {commandCapture, commandStatus}

NextQueue ==
    \/ \E h \in Handlers, from \in availableIds, id \in UpdateIDs, txt \in QueueTexts :
           ReceiveMessage(h, from, id, txt)
    \/ \E h \in Handlers, from \in availableIds : ReceiveInlineQuery(h, from)
    \/ HandlerStep
    \/ ConsumerStep

SpecQueue == InitQueue /\ [][NextQueue]_vars

\* the consumer's own steps and the events that are bound to happen: the timer
\* expires, and cmd.Wait() returns once the process has exited. The exit of a
\* capture process is not among them: the process may hang.
Fairness ==
    /\ WF_vars(Dequeue \/ CameraLock \/ CmdStart \/ SelectDone \/ SelectTimeout \/ Kill
               \/ SendError \/ SendPhoto \/ SavePhotoLock \/ SavePhotoExec)
    /\ WF_vars(TimerFire)
    /\ WF_vars(WaiterReap)

\* the fair runs of a process that is not ended by a panic
SpecFair == Init /\ [][NextRun]_vars /\ Fairness

\* ------------------------------------------------------------ properties
\* capture processes that are executing: spawned and not yet exited
NumExecuting == orphans + (IF proc = "running" THEN 1 ELSE 0)

\* the locks a control flow holds
LocksHeld(flow) ==
    (IF poolLock = flow THEN 1 ELSE 0)
    + (IF cameraLock = flow THEN 1 ELSE 0)
    + (IF flow \in dbReaders THEN 1 ELSE 0)
    + (IF flow = Consumer /\ dbWriter THEN 1 ELSE 0)

Flows == Handlers \cup {Consumer}

\* handler h waits for room in the full capture channel
BlockedOnQueue(h) == hpc[h] = "enqueue" /\ Len(captureChannel) = numQueue

\* handler h is running and cannot take its next step
HandlerBlocked(h) ==
    \/ hpc[h] = "lock" /\ poolLock # Free
    \/ hpc[h] = "enqueue" /\ ~CanSend
    \/ hpc[h] = "rlock" /\ ~CanRLock

\* the consumer waits for a request or for a lock
ConsumerBlocked ==
    \/ cpc = "recv" /\ captureChannel = <<>>
    \/ cpc = "camlock" /\ cameraLock # Free
    \/ cpc = "save" /\ ~CanLock

\* C1: in every reachable state at most one capture process is executing, a
\* process counting as executing from its spawn until it has exited.
C1_AtMostOneCaptureProcess == NumExecuting <= 1

\* C2: the camera lock taken by processCaptureRequest is released on every exit
\* path: whenever the consumer is outside the call, the lock is free, and it is
\* held by the consumer exactly while the call runs.
C2_CameraLockReleased ==
    /\ cpc \in {"recv", "camlock"} => cameraLock = Free
    /\ cpc \notin {"recv", "camlock"} => cameraLock = Consumer

\* C2 witness: the call has returned both after a delivered capture and after a
\* timed-out one, and the lock is free.
C2_Witness ==
    /\ cpc = "recv"
    /\ cameraLock = Free
    /\ orphans > 0
    /\ photos # <<>>

\* C3: the capture channel never holds more than numQueue requests; a producer
\* that finds it full stays blocked with its request until there is room; the
\* channel changes only by a removal at its head or by the append of the
\* request of a producer, which is how a producer leaves its send.
C3_QueueBoundedAndBlocking ==
    /\ [](Len(captureChannel) <= numQueue)
    /\ [][/\ \A h \in Handlers :
                BlockedOnQueue(h) => hpc'[h] = "enqueue" /\ upd'[h] = upd[h]
          /\ \A h \in Handlers :
                hpc[h] = "enqueue" /\ hpc'[h] # "enqueue"
                    => captureChannel' = Append(captureChannel, RequestOf(h))
          /\ captureChannel' # captureChannel
                => \/ captureChannel # <<>> /\ captureChannel' = Tail(captureChannel)
                   \/ \E h \in Handlers :
                         /\ hpc[h] = "enqueue"
                         /\ captureChannel' = Append(captureChannel, RequestOf(h))
         ]_vars

\* C3 witness: a producer is blocked on the full channel.
C3_Witness == \E h \in Handlers : BlockedOnQueue(h)

\* C4: when processUpdate handles an update whose id equals the session's
\* LastUpdateID, no session changes, no reply is sent and nothing is enqueued:
\* the handler returns at once.
C4_DuplicateIsNoOp ==
    [][\A h \in Handlers :
          /\ hpc[h] = "lock"
          /\ hpc'[h] # "lock"
          /\ pool[upd[h].From].LastUpdateID = upd[h].UpdateID
          => /\ pool' = pool
             /\ captureChannel' = captureChannel
             /\ hpc'[h] = "idle"
             /\ poolLock' = poolLock
      ]_vars

\* C4 witness: an update that repeats the id recorded in the session is about to
\* pass the duplicate test.
C4_Witness ==
    \E h \in Handlers :
        /\ hpc[h] = "lock"
        /\ poolLock = Free
        /\ pool[upd[h].From].LastUpdateID = upd[h].UpdateID

\* C5: the LastUpdateID of a session never decreases from one state to the next.
C5_LastUpdateIDMonotonic ==
    [][\A u \in availableIds : pool'[u].LastUpdateID >= pool[u].LastUpdateID]_vars

\* C6: an update whose id has already mutated the user's session causes no
\* further session mutation, no reply and no enqueue.
C6_SeenIdIsNoOp ==
    [][\A h \in Handlers :
          /\ hpc[h] = "lock"
          /\ hpc'[h] # "lock"
          /\ upd[h].UpdateID \in seen[upd[h].From]
          => /\ pool' = pool
             /\ captureChannel' = captureChannel
             /\ hpc'[h] = "idle"
      ]_vars

\* C7: the session-pool lock is not held while a capture request is being
\* enqueued: when a handler is blocked on the full capture channel the pool lock
\* is free, so that another user's update can enter the registry.
C7_PoolLockFreeWhileEnqueueing ==
    \A h \in Handlers : BlockedOnQueue(h) => poolLock = Free

C9_NoDeadlock ==
    ~ /\ \E h \in Handlers : hpc[h] # "idle"
      /\ \A h \in Handlers : hpc[h] # "idle" => HandlerBlocked(h)
      /\ ConsumerBlocked

\* C9 witness: the only running handler is blocked on the full channel while it
\* holds the pool lock, and the consumer is the one flow that can take a step.
C9_Witness ==
    \E h \in Handlers :
        /\ BlockedOnQueue(h)
        /\ poolLock = h
        /\ \A g \in Handlers : hpc[g] # "idle" => HandlerBlocked(g)
        /\ cpc = "recv"

\* C10: a capture whose process has not completed when the consumer finds the
\* timer expired leaves the select by the timeout branch only, the kill attempt
\* is followed by the return of a timeout error, and every capture that was
\* started returns to the consumer.
C10_TimeoutReturns ==
    /\ [][cpc = "select" /\ proc = "running" /\ cpc' # "select" => cpc' = "kill"]_vars
    /\ [][cpc = "kill" /\ cpc' # "kill"
             => cpc' = "senderr" /\ capErr' \in {"timeout", "killfail"}]_vars
    /\ (cpc \in {"start", "select", "kill"}) ~> (cpc \in {"sendphoto", "senderr"})

\* C10 witness: a capture has timed out and the timeout error is back in
\* processCaptureRequest while the process it could not wait for still executes.
C10_Witness == cpc = "senderr" /\ capErr = "timeout" /\ orphans > 0

\* C11: no handled error stops the consumer. Every return of processCaptureRequest
\* after a capture error, a timeout, a failed kill, an undelivered photo or a
\* failed insert puts the consumer back at the receive of its loop with the
\* camera lock free; it does get there, and a request that waits in the channel
\* is then dequeued and its capture started under the camera lock.
C11_ConsumerGoesOn ==
    /\ [][(cpc \in {"senderr", "saving"} \/ (cpc = "sendphoto" /\ ~sent'))
            /\ cpc' # cpc
            => cpc' = "recv" /\ cameraLock' = Free /\ request' = NoRequest]_vars
    /\ (cpc \in {"senderr", "saving"}) ~> (cpc = "recv" /\ cameraLock = Free)
    /\ (cpc = "recv" /\ captureChannel # <<>>)
           ~> (cpc = "start" /\ cameraLock = Consumer /\ request # NoRequest)

\* C11 witness: after a capture that timed out (its process is still around) the
\* capture of the next request is being started under the camera lock.
C11_Witness == cpc = "start" /\ cameraLock = Consumer /\ orphans > 0

\* C12: capture requests are started in the order in which they entered the
\* channel, by the one consumer loop: a request enters at the tail only; the
\* channel loses a request only when the consumer, waiting at its receive, takes
\* the head; the capture that is started next is the one of that request; and
\* while processCaptureRequest runs nothing is dequeued and the request in hand
\* does not change.
C12_FifoSingleConsumer ==
    [][/\ Len(captureChannel') > Len(captureChannel)
            => /\ Len(captureChannel') = Len(captureChannel) + 1
               /\ SubSeq(captureChannel', 1, Len(captureChannel)) = captureChannel
       /\ Len(captureChannel') < Len(captureChannel)
            => /\ cpc = "recv" /\ cpc' = "camlock"
               /\ request' = Head(captureChannel)
               /\ captureChannel' = Tail(captureChannel)
       /\ Len(captureChannel') = Len(captureChannel)
            => captureChannel' = captureChannel
       /\ cpc' = "start" /\ cpc # "start"
            => cpc = "camlock" /\ request' = request /\ request # NoRequest
       /\ cpc # "recv"
            => /\ Len(captureChannel') >= Len(captureChannel)
               /\ cpc' # "recv" => request' = request
      ]_vars

\* C12 witness: the capture of alice's request is being started while the
\* request of bob, which entered the channel after it, waits.
C12_Witness ==
    /\ cpc = "start"
    /\ request.UserName = "alice"
    /\ Len(captureChannel) = 1
    /\ captureChannel[1].UserName = "bob"

\* requests that were enqueued and whose processCaptureRequest has not returned
InFlight == Len(captureChannel) + (IF cpc = "recv" THEN 0 ELSE 1)

\* C13: every enqueued request is handed to processCaptureRequest exactly once.
\* The requests in flight grow by one only by the send of a handler, which
\* appends its request, and shrink by one only by the return of
\* processCaptureRequest; the receive moves the head of the channel into the
\* consumer's hands and removes it (no duplicate, no drop); a capture is started
\* only for a request just dequeued (no retry); and the consumer holds a request
\* exactly while it is away from its receive.
C13_HandedOverExactlyOnce ==
    /\ []((cpc = "recv") <=> (request = NoRequest))
    /\ [][/\ InFlight' > InFlight
               => /\ InFlight' = InFlight + 1
                  /\ cpc' = cpc /\ request' = request
                  /\ \E h \in Handlers :
                        /\ hpc[h] = "enqueue" /\ hpc'[h] = "idle"
                        /\ captureChannel' = Append(captureChannel, RequestOf(h))
          /\ InFlight' < InFlight
               => /\ InFlight' = InFlight - 1
                  /\ cpc \in {"senderr", "sendphoto", "saving"} /\ cpc' = "recv"
                  /\ captureChannel' = captureChannel
          /\ InFlight' = InFlight /\ captureChannel' # captureChannel
               => /\ cpc = "recv" /\ cpc' = "camlock"
                  /\ <<request'>> \o captureChannel' = captureChannel
          /\ cpc' = "camlock" /\ cpc # "camlock" => cpc = "recv"
          /\ cpc' = "start" /\ cpc # "start" => cpc = "camlock"
         ]_vars

\* C13 witness: one request has been through processCaptureRequest (its photo is
\* stored) and the consumer is back at its receive with the next request queued.
C13_Witness ==
    /\ cpc = "recv"
    /\ request = NoRequest
    /\ Len(photos) = 1
    /\ Len(captureChannel) = 1

\* C14: a row is appended to the photo store only by the SavePhoto of a request
\* whose capture returned no error and whose SendPhoto was ok, one row at most
\* for each such request: a capture that failed or timed out goes to the error
\* message, an undelivered photo returns, and neither reaches SavePhoto.
C14_RowOnlyAfterCaptureAndDelivery ==
    /\ [](capErr # "nil" => cpc = "senderr")
    /\ [](sent <=> cpc \in {"save", "saving"})
    /\ [](cpc \in {"save", "saving"} => capErr = "nil")
    /\ [][photos' # photos
             => /\ cpc = "saving" /\ capErr = "nil" /\ sent
                /\ Len(photos') = Len(photos) + 1
                /\ photos'[Len(photos')].UserName = request.UserName
                /\ cpc' = "recv" /\ ~sent'
         ]_vars

\* C14 witness: the photo of a request is captured and delivered and is about to
\* be stored, after an earlier capture timed out and left no row.
C14_Witness ==
    /\ cpc = "saving"
    /\ sent
    /\ capErr = "nil"
    /\ orphans > 0
    /\ photos = <<>>

\* the request a /capture of userName must produce under configuration c
ExpectedRequest(userName, c) ==
    [UserName |-> userName,
     ImageWidth |-> IF c.ImageWidth < MinImageWidth THEN MinImageWidth ELSE c.ImageWidth,
     ImageHeight |-> IF c.ImageHeight < MinImageHeight THEN MinImageHeight
                     ELSE c.ImageHeight]

\* C15: the /capture of a whitelisted user whose session has seen no update,
\* outside maintenance, is sent to the capture channel; the send appends exactly
\* one request with that user's name and the configured width and height, each
\* raised to its minimum; the SavePhoto of that request, which runs after its
\* capture and delivery, appends one row with that user's name (none when the
\* insert itself fails); one update thus puts at most one request in flight and,
\* once that request is through, at most one row in the store.
C15_CaptureEnqueuesOneRequest ==
    /\ [](\A i \in 1..Len(captureChannel) :
             /\ captureChannel[i].ImageWidth >= MinImageWidth
             /\ captureChannel[i].ImageHeight >= MinImageHeight)
    /\ [](budget >= MaxUpdates - 1 => InFlight + Len(photos) <= 1)
    /\ [][\A h \in Handlers :
            /\ (/\ hpc[h] = "lock" /\ hpc'[h] # "lock"
                /\ pool[upd[h].From].LastUpdateID = -1
                /\ HasPrefix(upd[h].Text, commandCapture)
                /\ ~isInMaintenance)
               => hpc'[h] = "enqueue" /\ upd'[h] = upd[h]
            /\ (hpc[h] = "enqueue" /\ hpc'[h] # "enqueue")
               => \E c \in Configs :
                     /\ ~c.IsInMaintenance
                     /\ captureChannel' =
                            Append(captureChannel, ExpectedRequest(upd[h].From, c))
         ]_vars
    /\ [][cpc = "saving" /\ cpc' # "saving"
            => \/ photos' = photos
               \/ /\ Len(photos') = Len(photos) + 1
                  /\ SubSeq(photos', 1, Len(photos)) = photos
                  /\ photos'[Len(photos')].UserName = request.UserName
         ]_vars

\* C15 witness: one update has been delivered, alice's /capture; its request
\* carried the configured width and the height raised to the minimum, and after
\* capture and delivery the store holds exactly one row, alice's.
C15_Witness ==
    /\ budget = MaxUpdates - 1
    /\ imageWidth = 1600 /\ imageHeight = MinImageHeight
    /\ pool["alice"].LastUpdateID # -1
    /\ cpc = "recv" /\ captureChannel = <<>>
    /\ Len(photos) = 1 /\ photos[1].UserName = "alice"

\* C16: a message from a user without a username, or with a username that is
\* not in availableIds, is dropped before the pool is entered: only the updates
\* of allowed users get past the username checks, and the handler of a rejected
\* update returns without taking the pool lock, with every session, the capture
\* channel and the set of sessions as they were, and without passing through a
\* reply.
C16_RejectedUserDropped ==
    /\ [](\A h \in Handlers :
             hpc[h] \in {"lock", "reply", "maintenance", "enqueue"}
                 => upd[h].From # NoUsername /\ upd[h].From \in availableIds)
    /\ [](\A h \in Handlers :
             hpc[h] = "rejected"
                 => /\ upd[h].From = NoUsername \/ upd[h].From \notin availableIds
                    /\ poolLock # h)
    /\ [](DOMAIN pool = availableIds)
    /\ [][\A h \in Handlers :
             hpc[h] = "rejected" /\ hpc'[h] # "rejected"
                 => /\ hpc'[h] = "idle"
                    /\ pool' = pool
                    /\ poolLock' = poolLock
                    /\ captureChannel' = captureChannel
         ]_vars
    /\ [][\A h \in Handlers :
             hpc[h] = "idle" /\ hpc'[h] = "rejected"
                 => pool' = pool /\ poolLock' = poolLock /\ captureChannel' = captureChannel
         ]_vars

\* C16 witness: the handlers hold two rejected messages, one from a user without
\* a username and one from a user who is not allowed, and nothing else has
\* happened: no session has recorded an update and the channel is empty.
C16_Witness ==
    \E h, g \in Handlers :
        /\ hpc[h] = "rejected" /\ upd[h].From = NoUsername
        /\ hpc[g] = "rejected" /\ upd[g].From = "mallory"
        /\ \A u \in availableIds : pool[u].LastUpdateID = -1
        /\ captureChannel = <<>> /\ poolLock = Free

\* C17: in maintenance mode a /capture of an allowed user is answered with the
\* maintenance message and is never sent to the capture channel: no handler
\* reaches the send, the channel stays empty, the consumer stays at its receive
\* and no capture process is ever started.
C17_MaintenanceNeverEnqueues ==
    /\ [](isInMaintenance
            => /\ \A h \in Handlers : hpc[h] # "enqueue"
               /\ captureChannel = <<>>
               /\ cpc = "recv" /\ request = NoRequest
               /\ cameraLock = Free
               /\ proc = "none" /\ orphans = 0)
    /\ [](\A h \in Handlers : hpc[h] = "maintenance" => isInMaintenance)
    /\ [][\A h \in Handlers :
            /\ (/\ isInMaintenance
                /\ hpc[h] = "lock" /\ hpc'[h] # "lock"
                /\ pool[upd[h].From].LastUpdateID # upd[h].UpdateID
                /\ HasPrefix(upd[h].Text, commandCapture))
               => hpc'[h] = "maintenance"
            /\ (hpc[h] = "maintenance" /\ hpc'[h] # "maintenance")
               => hpc'[h] \in {"idle", "failed"} /\ captureChannel' = captureChannel
         ]_vars

\* C17 witness: in maintenance mode the handler of a /capture is about to send
\* the maintenance message.
C17_Witness ==
    /\ isInMaintenance
    /\ \E h \in Handlers : hpc[h] = "maintenance" /\ upd[h].Text = commandCapture

\* the rows stored for userName, oldest first
RowsOf(userName) == SelectSeq(photos, LAMBDA p : p.UserName = userName)

\* the n most recently appended rows of userName, the most recent first
MostRecent(userName, n) ==
    LET mine == RowsOf(userName)
        k == IF n < Len(mine) THEN n ELSE Len(mine)
    IN  [i \in 1..k |-> mine[Len(mine) + 1 - i]]

\* C18: for every user U and every count n, GetPhotos(U, n) returns at most n
\* photos, each of them a stored row of U and none of another user, the most
\* recently appended first in strictly descending order of insertion, and they
\* are exactly the n most recent rows of U (all of them when U has fewer).
C18_GetPhotosLatest ==
    got # NoCall =>
        LET r == got.photos IN
        /\ Len(r) <= got.latestN
        /\ \A i \in 1..Len(r) :
              /\ r[i].UserName = got.UserName
              /\ \E j \in 1..Len(photos) : photos[j] = r[i]
        /\ \A i \in 1..(Len(r) - 1) : r[i].FileId > r[i + 1].FileId
        /\ r = MostRecent(got.UserName, got.latestN)

\* C18 witness: alice has three rows and bob one between them; GetPhotos(alice, 2)
\* has returned alice's two latest rows, the fourth and the second of the table.
C18_Witness ==
    /\ Len(photos) = 4
    /\ photos[1].UserName = "alice" /\ photos[2].UserName = "alice"
    /\ photos[3].UserName = "bob" /\ photos[4].UserName = "alice"
    /\ got.UserName = "alice" /\ got.latestN = 2
    /\ Len(got.photos) = 2
    /\ got.photos[1].FileId = 4 /\ got.photos[2].FileId = 2

\* C19: the photo store is append-only: every step leaves the rows already
\* stored in place and unmodified, and adds at most one row after them.
C19_StoreAppendOnly ==
    [][/\ Len(photos') >= Len(photos)
       /\ Len(photos') <= Len(photos) + 1
       /\ SubSeq(photos', 1, Len(photos)) = photos
      ]_vars

\* C19 witness: a second row has been appended after the first, which is still
\* the row of the request that stored it.
C19_Witness ==
    /\ Len(photos) = 2
    /\ photos[1].FileId = 1 /\ photos[2].FileId = 2
    /\ photos[1].UserName # photos[2].UserName

\* C20: SavePhoto and GetPhotos exclude each other as writer and readers: while
\* SavePhoto holds the lock (the consumer is between d.Lock and d.Unlock, the
\* only place where the table changes) no GetPhotos is inside its read section,
\* and no reader enters or writer starts until it has left; the readers inside
\* are handlers between d.RLock and d.RUnlock, any number of them; the table
\* never changes while a reader is inside.
C20_ReadWriteExclusive ==
    /\ [](dbWriter => dbReaders = {})
    /\ [](dbWriter <=> cpc = "saving")
    /\ [](dbReaders = {h \in Handlers : hpc[h] = "reading"})
    /\ [][dbWriter /\ dbWriter' => dbReaders' = {} /\ photos' = photos]_vars
    /\ [][photos' # photos => dbWriter /\ dbReaders = {}]_vars
    /\ [][dbReaders # {} => photos' = photos /\ ~dbWriter']_vars

\* C20 witness: SavePhoto is inside its critical section and a GetPhotos waits
\* at d.RLock.
C20_Witness ==
    /\ dbWriter /\ cpc = "saving"
    /\ \E h \in Handlers : hpc[h] = "rlock"

\* C21: a failed insert of SavePhoto (prepare or exec) is only logged: the step
\* that runs SavePhoto leaves the table as it was, and whatever the insert
\* reported processCaptureRequest returns from it in the same way, with result
\* true after the delivered photo, straight back to the receive of the loop,
\* without passing through a message to the user and without a second SavePhoto
\* for the request.
C21_FailedInsertOnlyLogged ==
    /\ [](saveErr \in InsertErrors)
    /\ [][cpc = "saving" /\ cpc' # "saving"
            => /\ Result(capErr, sent)
               /\ cpc' = "recv" /\ request' = NoRequest /\ cameraLock' = Free
               /\ ~dbWriter'
               /\ saveErr' # "nil" => photos' = photos
               /\ saveErr' = "nil" => Len(photos') = Len(photos) + 1
         ]_vars
    /\ [][cpc' \in {"save", "saving"} /\ cpc' # cpc
            => cpc \in {"sendphoto", "save"} /\ request' = request]_vars

\* C21 witness: the exec of the insert failed for the first delivered photo: the
\* consumer is back at its receive, the camera lock is free and the table is
\* empty.
C21_Witness ==
    /\ saveErr = "exec"
    /\ cpc = "recv"
    /\ cameraLock = Free
    /\ photos = <<>>

\* ------------------------------------------------------------ C22
\* the errors of CaptureStillImage that are not a timeout: cmd.Start failed, or
\* the process ran and cmd.Wait returned an error
NonTimeoutErrors == {"start", "run"}

\* C22: a capture that failed without timing out takes the consumer to the
\* branch that sends the one message "image capture failed: <err>"; from there
\* its only step is that message, after which it is back at the receive with
\* the camera lock released: CaptureStillImage is not called again, no photo
\* was sent and the photos table is as it was.
C22_FailureReportedOnce ==
    [][ /\ (capErr' \in NonTimeoutErrors /\ capErr' # capErr) => cpc' = "senderr"
        /\ (cpc = "senderr" /\ capErr \in NonTimeoutErrors)
              => /\ ~sent /\ ~sent'
                 /\ photos' = photos
                 /\ cpc' \in {"senderr", "recv"}
                 /\ cpc' = "recv" => (request' = NoRequest /\ cameraLock' = Free)
      ]_vars

\* a capture process that ran and failed is about to be reported
C22_Witness ==
    /\ cpc = "senderr"
    /\ capErr = "run"
    /\ request # NoRequest
    /\ ~sent

\* ------------------------------------------------------------ C23
\* the consumer is at the statement after the call of CaptureStillImage
Returned == cpc \in {"sendphoto", "senderr"}

\* C23: CaptureStillImage returns the bytes exactly when it returns no error;
\* a return from the done case of the select carries no error or the process
\* error, a return after the timeout case carries the timeout error when Kill
\* succeeded and the failed-to-kill error when it did not, and a return without
\* a started process carries the start error.
C23_FourOutcomes ==
    [][ (~Returned /\ Returned')
            => /\ bytes' = "stdout" <=> capErr' = "nil"
               /\ cpc = "select" => (proc = "sending" /\ capErr' \in {"nil", "run"})
               /\ cpc = "kill" => /\ capErr' \in {"timeout", "killfail"}
                                  /\ \E o \in KillOutcomes(proc) : capErr' = o.err
               /\ cpc = "start" => capErr' = "start"
               /\ cpc \in {"select", "kill", "start"}
      ]_vars

\* the deadline passed, Kill failed, and the call returned that error and no bytes
C23_Witness ==
    /\ cpc = "senderr"
    /\ capErr = "killfail"
    /\ bytes = "nil"

\* ------------------------------------------------------------ calls of pure functions
\* strconv.Itoa of a natural number: its decimal digits
RECURSIVE Itoa(_)
Itoa(n) ==
    LET digit == <<"0", "1", "2", "3", "4", "5", "6", "7", "8", "9">>[(n % 10) + 1] IN
    IF n < 10 THEN <<digit>> ELSE Itoa(n \div 10) \o <<digit>>

\* the value of a camera parameter: nil, or a number
NilValue == [isNil |-> TRUE, n |-> 0]
Number(n) == [isNil |-> FALSE, n |-> n]

\* fmt.Sprintf("%v", v) of a parameter value that is not nil
Sprint(v) == Itoa(v.n)

\* keys and values of camera_params in the configuration
ParamKeys == {<<"-", "-", "h", "f", "l", "i", "p">>,
              <<"-", "-", "v", "f", "l", "i", "p">>,
              <<"-", "-", "r", "o", "t", "a", "t", "i", "o", "n">>}
ParamValues == {NilValue, Number(180)}

\* camera_params as the configuration file lists them: pairs with distinct keys
ParamLists ==
    UNION {{l \in [1..n -> ParamKeys \X ParamValues] :
                \A i, j \in 1..n : i # j => l[i][1] # l[j][1]} : n \in 0..MaxParams}

\* the map[string]interface{} the configuration is decoded into
MapOf(supplied) ==
    [k \in {supplied[i][1] : i \in 1..Len(supplied)} |->
        (CHOOSE i \in 1..Len(supplied) : supplied[i][1] = k) ]

\* the value the map holds for key k
ValueOf(supplied, k) == supplied[MapOf(supplied)[k]][2]

\* for k, v := range cameraParams: the iteration order of a Go map is not
\* specified, every order of the keys can come out
RangeOrders(keys) ==
    {o \in [1..Cardinality(keys) -> keys] :
        \A i, j \in 1..Cardinality(keys) : i # j => o[i] # o[j]}

\* the arguments that come before the camera parameters
FixedArgs(width, height) ==
    << <<"-", "-", "w", "i", "d", "t", "h">>, Itoa(width),
       <<"-", "-", "h", "e", "i", "g", "h", "t">>, Itoa(height),
       <<"-", "-", "e", "n", "c", "o", "d", "i", "n", "g">>, <<"j", "p", "g">>,
       <<"-", "-", "o", "u", "t", "p", "u", "t">>, <<"-">> >>

\* args = append(args, k); if v != nil { args = append(args, Sprintf("%v", v)) }
RECURSIVE AppendParams(_, _, _)
AppendParams(args, supplied, order) ==
    IF order = <<>> THEN args
    ELSE LET k == Head(order)
             v == ValueOf(supplied, k)
         IN AppendParams(IF v.isNil THEN Append(args, k)
                         ELSE Append(Append(args, k), Sprint(v)),
                         supplied, Tail(order))

\* CaptureStillImage: the argument list given to exec.Command
CallCaptureStillImage(supplied, order) ==
    /\ got' = [supplied |-> supplied, width |-> imageWidth, height |-> imageHeight,
               args |-> AppendParams(FixedArgs(imageWidth, imageHeight), supplied, order)]
    /\ UNCHANGED <<cfgVars, handlerVars, captureChannel, consumerVars, dbVars>>

\* session.CurrentStatus: statusWaiting is the only status there is
Statuses == {statusWaiting}

\* the five commands of conf
AllCommands == {commandStart, commandCapture, commandStatus, commandHelp, commandCancel}

\* texts around the commands: every beginning of a command, a command followed
\* by one more character, preceded by a space, in another case, and other text
ClassifyTexts ==
    Texts
    \cup {SubSeq(c, 1, n) : c \in AllCommands, n \in 0..5}
    \cup {c \o <<x>> : c \in AllCommands, x \in {"X", " ", "s"}}
    \cup {<<" ">> \o c : c \in AllCommands}
    \cup {<<"/", "S", "t", "a", "r", "t">>, <<"/", "C", "A", "P", "T", "U", "R", "E">>,
          <<"/", "H", "e", "l", "p">>, <<"s", "t", "a", "r", "t">>}

\* the switch of processUpdate run on a text
CallClassify(status, txt) ==
    /\ got' = [status |-> status, txt |-> txt, cmd |-> Classify(status, txt),
               message |-> Message(status, txt)]
    /\ UNCHANGED <<cfgVars, handlerVars, captureChannel, consumerVars, dbVars>>

NextCalls ==
    \/ \E supplied \in ParamLists :
          \E order \in RangeOrders(DOMAIN MapOf(supplied)) :
              CallCaptureStillImage(supplied, order)
    \/ \E status \in Statuses, txt \in ClassifyTexts : CallClassify(status, txt)

SpecCalls == InitWith(0) /\ [][NextCalls]_vars

\* ------------------------------------------------------------ C24
\* the camera parameters rendered in the order they were supplied
RECURSIVE InSuppliedOrder(_)
InSuppliedOrder(supplied) ==
    IF supplied = <<>> THEN <<>>
    ELSE (IF Head(supplied)[2].isNil THEN <<Head(supplied)[1]>>
          ELSE <<Head(supplied)[1], Itoa(Head(supplied)[2].n)>>)
         \o InSuppliedOrder(Tail(supplied))

\* C24: the argument list is the fixed flags followed by the camera parameters
\* in the order they were supplied, each as its key followed by its value or as
\* the key alone when the value is nil.  (Does not hold: the parameters are
\* appended in the iteration order of a Go map.)
C24_ArgsInSuppliedOrder ==
    "args" \in DOMAIN got =>
        got.args = FixedArgs(got.width, got.height) \o InSuppliedOrder(got.supplied)

\* ------------------------------------------------------------ C25
\* the commands in the order of the cases of the switch, and the cmd of each
CaseOrder == <<commandStart, commandCapture, commandStatus, commandHelp>>
CaseNames == <<"start", "capture", "status", "help">>

\* the cases whose command the text begins with
Matching(txt) ==
    {i \in 1..Len(CaseOrder) :
        /\ Len(CaseOrder[i]) <= Len(txt)
        /\ \A n \in 1..Len(CaseOrder[i]) : txt[n] = CaseOrder[i][n]}

\* C25: the cmd selected for a text is that of the first case, in the order
\* start, capture, status, help, whose command the text begins with, compared
\* character by character, and unknown when it begins with none; no text
\* begins with more than one of the four commands.
C25_FirstMatch ==
    "cmd" \in DOMAIN got =>
        LET m == Matching(got.txt) IN
        /\ Cardinality(m) <= 1
        /\ got.cmd = IF m = {} THEN "unknown"
                     ELSE CaseNames[CHOOSE i \in m : \A j \in m : i <= j]

\* a capture command followed by one more character is still a capture
C25_Witness ==
    /\ "cmd" \in DOMAIN got
    /\ got.txt = commandCapture \o <<"X">>
    /\ got.cmd = "capture"

\* ------------------------------------------------------------ C26
\* the updates of whitelisted users with every text of Texts
NextTexts ==
    \/ \E h \in Handlers, from \in availableIds, id \in UpdateIDs, txt \in Texts :
           ReceiveMessage(h, from, id, txt)
    \/ \E h \in Handlers, from \in availableIds : ReceiveInlineQuery(h, from)
    \/ HandlerStep
    \/ ConsumerStep

SpecTexts == Init /\ [][NextTexts]_vars

\* the text does not begin with the capture command
NotCapture(txt) == 2 \notin Matching(txt)

C27_SessionsFixed ==
    [][ /\ DOMAIN pool = availableIds
        /\ DOMAIN pool' = DOMAIN pool
        /\ \A u \in DOMAIN pool' :
              /\ pool'[u].UserID = u
              /\ pool'[u].CurrentStatus = statusWaiting
      ]_vars

\* a session has been written while the update of a user without a session is
\* being handled
C27_Witness ==
    /\ pool["alice"].LastUpdateID = 1
    /\ \E h \in Handlers : hpc[h] = "rejected" /\ upd[h].From = "mallory"

\* ------------------------------------------------------------ C28
\* the rows a lookup of handler h reads
LookupRows(h) == GetPhotos(upd[h].From, numLatestPhotos)

\* C28: a handler that processes an inline query is only ever in GetPhotos (or
\* stopped by a panic); none of its steps changes the capture channel, the
\* camera lock or anything else of the consumer, the session pool and its
\* lock, the ids recorded for the duplicate test, or the photos table; what it
\* reads under the read lock are rows of the requesting user only.
C28_LookupFrame ==
    [][ \A h \in Handlers :
          /\ upd'[h].Inline => hpc'[h] \in {"rlock", "reading", "panic"}
          /\ ((upd[h].Inline \/ upd'[h].Inline) /\ hpc'[h] # hpc[h])
                => /\ captureChannel' = captureChannel
                   /\ consumerVars' = consumerVars
                   /\ pool' = pool
                   /\ poolLock' = poolLock
                   /\ seen' = seen
                   /\ photos' = photos
                   /\ dbWriter' = dbWriter
          /\ hpc'[h] = "reading"
                => /\ h \in dbReaders'
                   /\ cameraLock' # h
                   /\ \A i \in 1..Len(LookupRows(h)') : LookupRows(h)'[i].UserName = upd'[h].From
      ]_vars

\* a lookup reads the photo stored for its user by an earlier capture
C28_Witness ==
    \E h \in Handlers :
        /\ hpc[h] = "reading"
        /\ upd[h].Inline
        /\ Len(LookupRows(h)) = 1
        /\ cameraLock = Free

\* ------------------------------------------------------------ C29
\* C29: an inline query from a user without a username is dropped without a
\* fault: the handler that received it never panics.  (Does not hold: the log
\* call of that branch dereferences update.Message, which is nil.)
C29_NoUsernameLookupDropped ==
    \A h \in Handlers : (upd[h].Inline /\ upd[h].From = NoUsername) => hpc[h] # "panic"

\* ------------------------------------------------------------ C30
\* the capture commands of one allowed user, enough of them to fill the channel
\* behind a capture that is running; no inline query, so no handler panics
InitDrain == InitWith(MaxDrainUpdates)

NextDrain ==
    \/ \E h \in Handlers, id \in UpdateIDs : ReceiveMessage(h, "alice", id, commandCapture)
    \/ \E h \in Handlers : PoolLock(h)
    \/ \E h \in Handlers : Reply(h)
    \/ \E h \in Handlers : Enqueue(h)
    \/ ConsumerStep

\* fair scheduling of the goroutines: a handler that can take its next step
\* takes it, and so does the consumer; timers fire
FairnessDrain ==
    /\ Fairness
    /\ \A h \in Handlers : WF_vars(PoolLock(h) \/ Reply(h) \/ Enqueue(h))

SpecDrain == InitDrain /\ [][NextDrain]_vars /\ FairnessDrain

\* C30: under fair scheduling, a handler that reached the send on the capture
\* channel, blocked on the full channel or not, gets past it, and it does so
\* only by appending its request; while requests wait in the channel the
\* consumer comes to take one, always the head, so that every request moves up
\* and is taken; and a request the consumer took is processed to the end: the
\* consumer is back at its receive with the camera lock free.
C30_QueueProgress ==
    /\ \A h \in Handlers : (hpc[h] = "enqueue") ~> (hpc[h] = "idle")
    /\ [][/\ \A h \in Handlers :
                hpc[h] = "enqueue" /\ hpc'[h] # "enqueue"
                    => /\ captureChannel' = Append(captureChannel, RequestOf(h))
                       /\ hpc'[h] = "idle"
          /\ cpc # "camlock" /\ cpc' = "camlock"
                => /\ cpc = "recv"
                   /\ request' = Head(captureChannel)
                   /\ captureChannel' = Tail(captureChannel)
         ]_vars
    /\ (captureChannel # <<>> /\ cpc # "camlock") ~> (cpc = "camlock")
    /\ (cpc = "camlock") ~> (cpc = "recv" /\ cameraLock = Free /\ request = NoRequest)

\* a producer is blocked on the full channel while the capture of an earlier
\* request is running
C30_Witness ==
    /\ \E h \in Handlers : BlockedOnQueue(h)
    /\ cpc = "select"
    /\ proc = "running"

\* ------------------------------------------------------------ C31
\* C31: for a text that begins with none of the four commands the reply is, for
\* a text that is not empty, the text between two asterisks, a colon, a space
\* and the unknown-command message, and for the empty text the unknown-command
\* message alone; it is never empty, so the dispatch of an unknown command is
\* the reply, in maintenance or not, never the capture channel.
C31_UnknownReply ==
    ("cmd" \in DOMAIN got /\ Matching(got.txt) = {}) =>
        LET n == Len(got.txt)
            m == got.message
            k == Len(MessageUnknownCommand)
        IN  /\ got.cmd = "unknown"
            /\ Len(m) > 0
            /\ n = 0 => m = MessageUnknownCommand
            /\ n > 0 => /\ Len(m) = n + k + 4
                        /\ m[1] = "*"
                        /\ SubSeq(m, 2, n + 1) = got.txt
                        /\ SubSeq(m, n + 2, n + 4) = <<"*", ":", " ">>
                        /\ SubSeq(m, n + 5, n + 4 + k) = MessageUnknownCommand
            /\ \A maintenance \in BOOLEAN : Dispatch(m, maintenance) = "reply"

\* the cancel token is answered with its own text and the unknown-command message
C31_Witness ==
    /\ "cmd" \in DOMAIN got
    /\ got.txt = commandCancel
    /\ got.cmd = "unknown"
    /\ got.message = <<"*">> \o commandCancel \o <<"*", ":", " ">> \o MessageUnknownCommand

\* ------------------------------------------------------------ C32
\* C32: the step of processUpdate under the pool lock for the update of user U
\* leaves the session of every other user as it was, and no other step changes
\* a session; whether the update is a duplicate depends on U's session only, so
\* an update id that another user's session already holds is processed for U:
\* U's session takes the id and the update is dispatched.
C32_OnlyOwnSession ==
    [][ /\ pool' # pool
            => \E h \in Handlers :
                  /\ hpc[h] = "lock" /\ hpc'[h] # "lock"
                  /\ \A u \in DOMAIN pool \ {upd[h].From} : pool'[u] = pool[u]
        /\ \A h \in Handlers :
              (/\ hpc[h] = "lock" /\ hpc'[h] # "lock"
               /\ pool[upd[h].From].LastUpdateID # upd[h].UpdateID)
                  => /\ pool'[upd[h].From].LastUpdateID = upd[h].UpdateID
                     /\ hpc'[h] \in {"reply", "maintenance", "enqueue"}
      ]_vars

\* the same update id has been recorded for both users, while the second of the
\* two updates is being answered
C32_Witness ==
    /\ pool["alice"].LastUpdateID = 1
    /\ pool["bob"].LastUpdateID = 1
    /\ \E h \in Handlers : hpc[h] = "reply" /\ upd[h].UpdateID = 1

\* ------------------------------------------------------------ C34
\* C34: the failed-to-kill error is returned only for a capture process that is
\* still running when Kill is called.  (Does not hold: once cmd.Wait() has
\* returned in the waiter goroutine, Kill fails with "process already
\* finished", and the select takes the timeout case also when done is ready.)
C34_KillFailOnlyWhileRunning ==
    [][(cpc = "kill" /\ cpc' # "kill" /\ capErr' = "killfail") => proc = "running"]_vars

\* ------------------------------------------------------------ C33
\* C33: every waiter goroutine that is left behind by a call that returned
\* through the timeout case terminates: whenever there are such goroutines,
\* later there are none.  (Does not hold: done is unbuffered and has no
\* receiver after the return, so the goroutine never gets past done <-; one
\* more stays for every capture that times out.)
C33_WaitersTerminate == (waiters > 0) ~> (waiters = 0)

\* ------------------------------------------------------------ C35
\* C35: from the moment a handler has got past the duplicate test, through the
\* send of its reply or of its request and through a send that failed, the
\* session of its user holds the id of its update; the return after a failed
\* send leaves that id in the session and frees the pool lock; and the handler
\* of an update whose id the session holds returns at once with the sessions
\* and the capture channel as they were: the redelivered update is not answered.
C35_IdRecordedBeforeSend ==
    [][\A h \in Handlers :
          /\ hpc'[h] \in {"reply", "maintenance", "enqueue", "failed"}
                => pool'[upd'[h].From].LastUpdateID = upd'[h].UpdateID
          /\ (hpc[h] = "failed" /\ hpc'[h] # "failed")
                => /\ hpc'[h] = "idle"
                   /\ pool'[upd[h].From].LastUpdateID = upd[h].UpdateID
                   /\ poolLock' = Free
          /\ (/\ hpc[h] = "lock" /\ hpc'[h] # "lock"
              /\ pool[upd[h].From].LastUpdateID = upd[h].UpdateID)
                => /\ hpc'[h] = "idle"
                   /\ pool' = pool
                   /\ captureChannel' = captureChannel
      ]_vars

\* the send of a reply has failed and the same update, delivered again, waits
\* for the pool lock
C35_Witness ==
    \E h, g \in Handlers :
        /\ hpc[g] = "failed"
        /\ hpc[h] = "lock"
        /\ upd[h] = upd[g]
        /\ pool[upd[g].From].LastUpdateID = upd[g].UpdateID

====
